---- MODULE Spec2Model ----
(***************************************************************************)
(* A model of the ansible-secrethub modules:                               *)
(*   library/secrethub_cli.py        CLIModule (install / upgrade / remove) *)
(*   module_utils/client.py          Client (read / write / generate)       *)
(*   library/secrethub_write.py      WriteModule                            *)
(*   library/secrethub_generate.py   GenerateModule                         *)
(*   module_utils/secrethub_base.py  BaseModule (get_option, client, fail)  *)
(*                                                                         *)
(* Text (versions, secrets, standard streams) is a sequence of characters  *)
(* over a two-letter alphabet that holds the newline, so that trimming a   *)
(* newline differs from keeping it.  The file system, the release server   *)
(* and the CLI binary are the environment: what they hold is drawn in the  *)
(* initial state, what they answer is drawn where the code asks.           *)
(***************************************************************************)
EXTENDS Integers, Sequences, FiniteSets, TLC

\* ------------------------------------------------------------------ bounds

\* Longest text (version, stream content, secret) the model draws.
MaxLen == 2

\* Number of consecutive runs of the CLI module with the same parameters.
MaxRuns == 2

\* ------------------------------------------------------------------- text

NL == "\n"

Chars == {"1", NL}

Strings == UNION {[1..n -> Chars] : n \in 0..MaxLen}

Empty == <<>>

\* DropLast with the slice forgotten: the newline stays on the version.
DropLast_kept(s) == s

\* s[:-1] in Python: everything but the last character; "" stays "".
DropLast(s) == SubSeq(s, 1, Len(s) - 1)

\* s.endswith('\n')
EndsWithNL(s) == Len(s) > 0 /\ s[Len(s)] = NL

\* Python's None and a str side by side: an optional text.
None == [some |-> FALSE, text |-> Empty]

Some(s) == [some |-> TRUE, text |-> s]

\* The word 'latest', the default of the version parameter.  It is a text
\* of its own, outside the alphabet of the drawn texts.
Latest == <<"latest">>

\* ------------------------------------------------------------ environment

\* OS-level outcomes of starting a process or touching a file are "OK" or
\* an errno: "EACCES", "ENOENT", and "EOTHER" for every errno the code has
\* no branch for.

\* What a file at bin_path can be: the text it prints on standard error for
\* --version, and whether this user can start it.
\*   "exec"   starts;  "noperm" fails with EACCES;  "badfmt" fails with
\*   another errno (an unreadable or truncated executable).
Modes == {"exec", "noperm", "badfmt"}

BinaryFiles == [out : Strings, mode : Modes]

\* No file at that path.
NoFile == [out |-> Empty, mode |-> "absent"]

\* A file cut short by a failed write.
Truncated == [out |-> Empty, mode |-> "badfmt"]

\* The versions the release server has an archive for: the non-empty texts
\* a URL can carry (no newline inside the URL path).
HasNL(s) == \E i \in 1..Len(s) : s[i] = NL

Releases == {v \in Strings : Len(v) > 0 /\ ~HasNL(v)}

\* The binary of release v, as extracted (before chmod): it prints its
\* version and a newline on standard error.
ReleaseBinary(v) == [out |-> v \o <<NL>>, mode |-> "noperm"]

\* The other member of the archive.
ReleaseNotes(v) == [out |-> v, mode |-> "data"]

\* The files of an install directory that the model follows, in the order
\* extractall() meets them in the archive.
Members == <<"secrethub", "LICENSE">>

bin_name == "secrethub"

ArchiveMember(v, i) ==
    IF Members[i] = bin_name THEN ReleaseBinary(v) ELSE ReleaseNotes(v)

\* ------------------------------------------------------------------ state

VARIABLES
    module,       \* which program runs: "secrethub_cli", "secrethub_write",
                  \* "secrethub_generate", "client_read", "options"
    pc,           \* the statement the program is at
    result,       \* "running", "exit" (exit_json), "fail" (fail_json),
                  \* "crash" (an exception nobody catches)
    msg,          \* which failure message fail() was given
    dir,          \* the install directory: file name -> file
    dirWritable,  \* whether this user may create and delete files in it
    state,        \* parameter state: "present" or "absent"
    version,      \* parameter version: a text, or Latest
    manifest,     \* body of https://get.secrethub.io/releases/LATEST
    returns,      \* self.returns
    current,      \* run's local current_version
    target,       \* run's local target_version
    tmp,          \* the mkdtemp() directory: "none", "exists", "removed"
    extracted,    \* members of the archive extractall() has written
    dir0,         \* the install directory as install() found it
    phase,        \* progress of install() and uninstall()
    calls,        \* how often each operation was invoked in this run
    runNo,        \* 1 for the first run, 2 for the run that follows it
    params,       \* playbook values of cli_path, config_dir, credential, ...
    env,          \* os.environ: variable name -> value
    config,       \* the Client that BaseModule.client() built
    value,        \* parameter value of secrethub_write
    symbols,      \* parameter symbols of secrethub_generate
    length,       \* parameter length of secrethub_generate
    cmds,         \* the commands started so far, in order
    clientRes,    \* how the call of Client.read/write/generate ended
    reported      \* what WriteModule / GenerateModule hand to Ansible

cliVars == <<pc, result, msg, dir, dirWritable, state, version, manifest,
             returns, current, target, tmp, extracted, dir0, phase, calls,
             runNo>>

\* The variables of run() that the secret modules never touch.
cliRest == <<dirWritable, state, version, manifest, returns, current, target,
             tmp, extracted, dir0, phase, calls, runNo>>

clientVars == <<params, env, config, value, symbols, length, cmds, clientRes,
                reported>>

vars == <<module, cliVars, clientVars>>

NoCalls == [install |-> 0, uninstall |-> 0, target_version |-> 0,
            fetch |-> 0, extract |-> 0, chmod |-> 0]

Idle == [install |-> "idle", uninstall |-> "idle"]

\* BaseModule.__init__: self.returns = {'changed': False}
InitReturns == [changed |-> FALSE, paths |-> FALSE, version |-> None]

\* ----------------------------------------------------- CLIModule: helpers

\* subprocess.Popen([path, ...]) on a file: how starting it ends.
Popen(file) ==
    CASE file.mode = "absent" -> "ENOENT"
      [] file.mode = "noperm" -> "EACCES"
      [] file.mode = "exec"   -> "OK"
      [] OTHER                -> "EOTHER"

\* CLIModule.bin_path(): the file the module starts and replaces.
bin_path == dir[bin_name]

\* CLIModule.current_version() on the file at bin_path.
\*   kind "return": val is the version (None when there is no file);
\*   kind "fail":   fail() was called (found but cannot execute);
\*   kind "raise":  the OSError was raised again.
current_version(file) ==
    CASE Popen(file) = "OK"     -> [kind |-> "return", val |-> Some(DropLast(file.out))]
      [] Popen(file) = "EACCES" -> [kind |-> "fail", val |-> None]
      [] Popen(file) = "ENOENT" -> [kind |-> "return", val |-> None]
      [] OTHER                  -> [kind |-> "raise", val |-> None]

\* chmod711 left out: the extracted file keeps the mode it was written with.
chmod711_skipped(file) == file

\* os.chmod(path, 0o711) on a file this user just wrote.
chmod711(file) == [file EXCEPT !.mode = "exec"]

\* cleanup(): shutil.rmtree(tmp_dir)
cleanup == "removed"

\* ------------------------------------------------------- CLIModule: steps

\* BaseModule.fail(msg): fail_json ends the process.
fail(m) == result' = "fail" /\ msg' = m /\ pc' = "done"

\* An exception that no handler catches ends the process with a traceback.
raise == result' = "crash" /\ msg' = msg /\ pc' = "done"

\* AfterCurrent without the "is not None" test before uninstall().
AfterCurrent_unguarded(cur) ==
    IF state = "present" THEN "target_version" ELSE "uninstall"

\* Where run() goes after it has read the current version.
AfterCurrent(cur) ==
    CASE state = "present"               -> "target_version"
      [] state = "absent" /\ cur # None  -> "uninstall"
      [] OTHER                           -> "exit"

\* run(): current_version = self.current_version(); self.returns.update(...)
run ==
    /\ module = "secrethub_cli" /\ pc = "run"
    /\ LET cv == current_version(bin_path) IN
         CASE cv.kind = "return" ->
                /\ current' = cv.val
                /\ returns' = [returns EXCEPT !.paths = TRUE, !.version = cv.val]
                /\ pc' = AfterCurrent(cv.val)
                /\ UNCHANGED <<result, msg>>
           [] cv.kind = "fail" ->
                /\ fail("cannot execute")
                /\ UNCHANGED <<current, returns>>
           [] OTHER ->
                /\ raise
                /\ UNCHANGED <<current, returns>>
    /\ UNCHANGED <<clientVars, module, dir, dirWritable, state, version, manifest, target,
                   tmp, extracted, dir0, phase, calls, runNo>>

\* AfterTarget without the comparison: install whatever is there.
AfterTarget_always(cur, tgt) == "install"

\* Where run() goes once the target version is known.
AfterTarget(cur, tgt) == IF cur # Some(tgt) THEN "install" ELSE "exit"

\* target_version() with a pinned version, and run()'s comparison.
target_version ==
    /\ module = "secrethub_cli" /\ pc = "target_version"
    /\ version # Latest
    /\ target' = version
    /\ pc' = AfterTarget(current, version)
    /\ calls' = [calls EXCEPT !.target_version = @ + 1]
    /\ UNCHANGED <<clientVars, module, result, msg, dir, dirWritable, state, version,
                   manifest, returns, current, tmp, extracted, dir0, phase,
                   runNo>>

\* What urlopen(...).read().decode() gives for the manifest: all of its
\* text, a trailing newline included (nothing is stripped).
ManifestText(body) == body

\* target_version() with version 'latest': latest_version() fetches the
\* manifest, or fails the module when the fetch raises IOError.
latest_version ==
    /\ module = "secrethub_cli" /\ pc = "target_version"
    /\ version = Latest
    /\ calls' = [calls EXCEPT !.target_version = @ + 1]
    /\ \E ok \in BOOLEAN :
         IF ok
         THEN /\ target' = ManifestText(manifest)
              /\ pc' = AfterTarget(current, ManifestText(manifest))
              /\ UNCHANGED <<result, msg>>
         ELSE /\ fail("failed to fetch latest version")
              /\ UNCHANGED target
    /\ UNCHANGED <<clientVars, module, dir, dirWritable, state, version, manifest,
                   returns, current, tmp, extracted, dir0, phase, runNo>>

\* How urlretrieve(fetch_url, tmp_file) can end for a version:
\*   "ok"         the archive is in the temporary directory;
\*   "EACCES"     IOError/OSError with errno EACCES;
\*   "IOError"    any other IOError/OSError (no such release, no network);
\*   "InvalidURL" an exception that is no IOError (a control character in
\*                the URL, refused by http.client).
FetchOutcomes(v) ==
    {"EACCES", "IOError"}
        \cup (IF v \in Releases THEN {"ok"} ELSE {})
        \cup (IF HasNL(v) THEN {"InvalidURL"} ELSE {})

\* install(version), first half: fetch_binary(version).
fetch_binary ==
    /\ module = "secrethub_cli" /\ pc = "install"
    /\ calls' = [calls EXCEPT !.install = @ + 1, !.fetch = @ + 1]
    /\ dir0' = dir
    /\ extracted' = 0
    /\ \E o \in FetchOutcomes(target) :
         CASE o = "ok" ->
                /\ tmp' = "exists"
                /\ pc' = "extract"
                /\ phase' = [phase EXCEPT !.install = "running"]
                /\ UNCHANGED <<result, msg>>
           [] o = "EACCES" ->
                /\ tmp' = cleanup
                /\ phase' = [phase EXCEPT !.install = "failed"]
                /\ fail("EACCES")
           [] o = "IOError" ->
                /\ tmp' = cleanup
                /\ phase' = [phase EXCEPT !.install = "failed"]
                /\ raise
           [] OTHER ->
                /\ tmp' = "exists"
                /\ phase' = [phase EXCEPT !.install = "failed"]
                /\ raise
    /\ UNCHANGED <<clientVars, module, dir, dirWritable, state, version, manifest,
                   returns, current, target, runNo>>

\* How writing the next member of the archive can end.
ExtractOutcomes ==
    {"EOTHER", "BadZipFile"}
        \cup (IF dirWritable THEN {"ok"} ELSE {"EACCES"})

\* install(version), extractall(): one member of the archive.
extractall ==
    /\ module = "secrethub_cli" /\ pc = "extract"
    /\ extracted < Len(Members)
    /\ LET i == extracted + 1 IN
       \E o \in ExtractOutcomes :
         CASE o = "ok" ->
                /\ dir' = [dir EXCEPT ![Members[i]] = ArchiveMember(target, i)]
                /\ extracted' = i
                /\ calls' = [calls EXCEPT !.extract = @ + 1]
                /\ UNCHANGED <<pc, result, msg, tmp, phase>>
           [] o = "EACCES" ->
                /\ tmp' = cleanup
                /\ phase' = [phase EXCEPT !.install = "failed"]
                /\ fail("EACCES")
                /\ UNCHANGED <<dir, extracted, calls>>
           [] o = "EOTHER" ->
                /\ \E cut \in BOOLEAN :
                     dir' = IF cut /\ dirWritable
                            THEN [dir EXCEPT ![Members[i]] = Truncated]
                            ELSE dir
                /\ tmp' = cleanup
                /\ phase' = [phase EXCEPT !.install = "failed"]
                /\ raise
                /\ UNCHANGED <<extracted, calls>>
           [] OTHER ->
                /\ phase' = [phase EXCEPT !.install = "failed"]
                /\ raise
                /\ UNCHANGED <<dir, extracted, calls, tmp>>
    /\ UNCHANGED <<clientVars, module, dirWritable, state, version, manifest, returns,
                   current, target, dir0, runNo>>

\* install(version), second half: cleanup(), chmod, returns.update(...).
install ==
    /\ module = "secrethub_cli" /\ pc = "extract"
    /\ extracted = Len(Members)
    /\ tmp' = cleanup
    /\ calls' = [calls EXCEPT !.chmod = @ + 1]
    /\ dir' = [dir EXCEPT ![bin_name] = chmod711(@)]
    /\ LET cv == current_version(chmod711(bin_path)) IN
         CASE cv.kind = "return" ->
                /\ returns' = [returns EXCEPT !.changed = TRUE, !.version = cv.val]
                /\ phase' = [phase EXCEPT !.install = "returned"]
                /\ pc' = "exit"
                /\ UNCHANGED <<result, msg>>
           [] cv.kind = "fail" ->
                /\ fail("cannot execute")
                /\ phase' = [phase EXCEPT !.install = "failed"]
                /\ UNCHANGED returns
           [] OTHER ->
                /\ raise
                /\ phase' = [phase EXCEPT !.install = "failed"]
                /\ UNCHANGED returns
    /\ UNCHANGED <<clientVars, module, dirWritable, state, version, manifest, current,
                   target, extracted, dir0, runNo>>

\* How os.remove(bin_path) ends.
Remove(file) ==
    CASE file.mode = "absent" -> "ENOENT"
      [] ~dirWritable         -> "EACCES"
      [] OTHER                -> "OK"

\* uninstall()
uninstall ==
    /\ module = "secrethub_cli" /\ pc = "uninstall"
    /\ calls' = [calls EXCEPT !.uninstall = @ + 1]
    /\ CASE Remove(bin_path) = "OK" ->
              /\ dir' = [dir EXCEPT ![bin_name] = NoFile]
              /\ returns' = [returns EXCEPT !.changed = TRUE,
                                            !.version = current_version(NoFile).val]
              /\ phase' = [phase EXCEPT !.uninstall = "returned"]
              /\ pc' = "exit"
              /\ UNCHANGED <<result, msg>>
         [] Remove(bin_path) = "EACCES" ->
              /\ fail("EACCES")
              /\ phase' = [phase EXCEPT !.uninstall = "failed"]
              /\ UNCHANGED <<dir, returns>>
         [] OTHER ->
              /\ raise
              /\ phase' = [phase EXCEPT !.uninstall = "failed"]
              /\ UNCHANGED <<dir, returns>>
    /\ UNCHANGED <<clientVars, module, dirWritable, state, version, manifest, current,
                   target, tmp, extracted, dir0, runNo>>

\* run(): self.exit()
exit ==
    /\ module = "secrethub_cli" /\ pc = "exit"
    /\ result' = "exit" /\ pc' = "done"
    /\ UNCHANGED <<clientVars, module, msg, dir, dirWritable, state, version, manifest,
                   returns, current, target, tmp, extracted, dir0, phase,
                   calls, runNo>>

\* The playbook runs the same task again right after a successful run.
main ==
    /\ module = "secrethub_cli" /\ pc = "done" /\ result = "exit"
    /\ runNo < MaxRuns
    /\ runNo' = runNo + 1
    /\ pc' = "run" /\ result' = "running" /\ msg' = ""
    /\ returns' = InitReturns
    /\ current' = None /\ target' = Empty
    /\ tmp' = "none" /\ extracted' = 0 /\ dir0' = dir
    /\ phase' = Idle /\ calls' = NoCalls
    /\ UNCHANGED <<clientVars, module, dir, dirWritable, state, version, manifest>>

\* Another process deletes the binary: between the module's look at it and
\* the module's own os.remove, or between the two commands of generate.
external_remove ==
    /\ \/ module = "secrethub_cli" /\ pc = "uninstall"
       \/ module = "secrethub_generate" /\ pc = "read"
    /\ bin_path # NoFile
    /\ dir' = [dir EXCEPT ![bin_name] = NoFile]
    /\ UNCHANGED <<clientVars, module, pc, result, msg, dirWritable, state, version,
                   manifest, returns, current, target, tmp, extracted, dir0,
                   phase, calls, runNo>>

\* ------------------------------------------------------------- BaseModule

OptionNames == {"cli_path", "config_dir", "credential", "credential_passphrase"}

\* name.upper()
upper(name) ==
    CASE name = "cli_path"              -> "CLI_PATH"
      [] name = "config_dir"            -> "CONFIG_DIR"
      [] name = "credential"            -> "CREDENTIAL"
      [] name = "credential_passphrase" -> "CREDENTIAL_PASSPHRASE"

\* The environment variable the documentation names for an option.  A name
\* is the sequence of its pieces.
EnvName(name) == <<"SECRETHUB_", upper(name)>>

\* The variables the model gives a value to: the documented four, and the
\* one whose whole name is SECRETHUB_.
EnvNames == {EnvName(n) : n \in OptionNames} \cup {<<"SECRETHUB_">>}

\* What a variable holds when it is set: a text that names the variable.
EnvValue(k) == Some(<<"env">> \o k)

\* What the playbook gives an option when it sets it.
PlaybookValue == Some(<<"playbook">>)

\* Python's truth value of an optional text: None and '' are false.
Truthy(o) == o.some /\ o.text # Empty

\* os.environ.get(key, None)
environ_get(key) == IF key \in EnvNames THEN env[key] ELSE None

\* The template get_option formats the variable name with.
EnvTemplate == <<"SECRETHUB_">>

\* template.format(arg): each {} of the template becomes arg, the rest of
\* the template stays as it is.
format(template, arg) ==
    [i \in 1..Len(template) |-> IF template[i] = "{}" THEN arg ELSE template[i]]

\* BaseModule.get_option(name)
get_option(name) ==
    LET option == params[name] IN
      IF ~Truthy(option)
      THEN environ_get(format(EnvTemplate, upper(name)))
      ELSE option

\* BaseModule.client(): Client(**options) with the options that are set;
\* an option left out is None in the client.
client ==
    [name \in OptionNames |->
        IF Truthy(get_option(name)) THEN get_option(name) ELSE None]

\* ----------------------------------------------------------------- Client

DefaultCliPath == <<"/usr/local/secrethub/secrethub">>

\* Client.__init__: self._cli_path
cli_path == IF config["cli_path"] # None THEN config["cli_path"].text ELSE DefaultCliPath

\* The path parameter of the secret modules.
Path == <<"path">>

\* Default of the length parameter of secrethub_generate.
DefaultLength == 22

\* str(e) of the client's exceptions.
Message(kind, text) ==
    CASE kind = "CLINotFound"     -> <<"cannot find the SecretHub CLI at: ">> \o cli_path
      [] kind = "CLINotPermitted" -> <<"cannot access the SecretHub CLI at: ">> \o cli_path
                                        \o <<" : permission denied">>
      [] OTHER                    -> text

\* StartError with the two errno tests taken for each other.
StartError_swapped(errno) ==
    CASE errno = "ENOENT" -> "CLINotPermitted"
      [] errno = "EACCES" -> "CLINotFound"
      [] OTHER            -> "OSError"

\* _run_command's "except OSError as e": what is raised for an errno.
StartError(errno) ==
    CASE errno = "ENOENT" -> "CLINotFound"
      [] errno = "EACCES" -> "CLINotPermitted"
      [] OTHER            -> "OSError"

\* _run_command: "if stdin:" decides whether a pipe is attached.
HasStdin(stdin) == Truthy(stdin)

\* Client._run_command(args, stdin) when the child, once started, writes out
\* and err.  kind "ok": the pair (out, err) is returned and cmd is the
\* command that ran; any other kind is the exception raised.
_run_command(args, stdin, out, err) ==
    LET command ==
            <<cli_path>>
              \o (IF Truthy(config["config_dir"])
                  THEN <<(<<"--config-dir=">> \o config["config_dir"].text)>>
                  ELSE <<>>)
              \o args
        childEnv ==
            [credential |->
                IF Truthy(config["credential"]) THEN config["credential"]
                ELSE environ_get(EnvName("credential")),
             credential_passphrase |->
                IF Truthy(config["credential_passphrase"])
                THEN config["credential_passphrase"]
                ELSE environ_get(EnvName("credential_passphrase"))]
        cmd == [argv |-> command, env |-> childEnv, op |-> args[1],
                pipe |-> HasStdin(stdin),
                input |-> IF HasStdin(stdin) THEN stdin.text ELSE Empty,
                out |-> out, err |-> err]
    IN IF Popen(bin_path) = "OK"
       THEN [kind |-> "ok", out |-> out, err |-> err, started |-> <<cmd>>]
       ELSE [kind |-> StartError(Popen(bin_path)), out |-> Empty,
             err |-> Empty, started |-> <<>>]

\* How a call of the client ended: kind "return" with the value in text, or
\* the exception raised with its message in text.
Outcome(kind, text, started) ==
    [kind |-> kind, text |-> Message(kind, text), started |-> started]

\* Client.read(path)
read(path, out, err) ==
    LET r == _run_command(<<<<"read">>, path>>, None, out, err) IN
      CASE r.kind # "ok"  -> Outcome(r.kind, Empty, r.started)
        [] r.err # Empty  -> Outcome("ReadError", r.err, r.started)
        [] OTHER          ->
             Outcome("return",
                     IF EndsWithNL(r.out) THEN DropLast(r.out) ELSE r.out,
                     r.started)

\* write that takes a non-empty standard output for a failure too.
write_checks_stdout(path, val, out, err) ==
    LET r == _run_command(<<<<"write">>, path>>, Some(val), out, err) IN
      CASE r.kind # "ok"                  -> Outcome(r.kind, Empty, r.started)
        [] r.err # Empty \/ r.out # Empty -> Outcome("WriteError", r.err, r.started)
        [] OTHER                          -> Outcome("return", val, r.started)

\* Client.write(path, value)
write(path, val, out, err) ==
    LET r == _run_command(<<<<"write">>, path>>, Some(val), out, err) IN
      CASE r.kind # "ok"  -> Outcome(r.kind, Empty, r.started)
        [] r.err # Empty  -> Outcome("WriteError", r.err, r.started)
        [] OTHER          -> Outcome("return", val, r.started)

\* The argument list of 'generate rand'.
GenerateArgs(path, len, sym) ==
    <<<<"generate">>, <<"rand">>>>
      \o (IF sym THEN <<(<<"--symbols">>)>> ELSE <<>>)
      \o <<path>>
      \o (IF len > 0 THEN <<(<<ToString(len)>>)>> ELSE <<>>)

\* generate that goes on to the read whatever the command wrote.
generate_unchecked(path, len, sym, out, err) ==
    LET r == _run_command(GenerateArgs(path, len, sym), None, out, err) IN
      CASE r.kind # "ok"  -> Outcome(r.kind, Empty, r.started)
        [] OTHER          -> Outcome("read", Empty, r.started)

\* Client.generate(path, length, symbols) up to its last line: kind "read"
\* says that it goes on to "return self.read(path)".
generate(path, len, sym, out, err) ==
    LET r == _run_command(GenerateArgs(path, len, sym), None, out, err) IN
      CASE r.kind # "ok"  -> Outcome(r.kind, Empty, r.started)
        [] r.err # Empty  -> Outcome("GenerateError", r.err, r.started)
        [] OTHER          -> Outcome("read", Empty, r.started)

NoOutcome == [kind |-> "none", text |-> Empty, started |-> <<>>]

NothingReported == [changed |-> FALSE, text |-> Empty]

\* WriteModule.run(): what it reports for an outcome of Client.write.
WriteModule_run(res) ==
    CASE res.kind = "return" ->
           [result |-> "exit", reported |-> [changed |-> TRUE, text |-> res.text]]
      [] res.kind \in {"CLINotFound", "CLINotPermitted", "WriteError"} ->
           [result |-> "fail", reported |-> [changed |-> FALSE, text |-> res.text]]
      [] OTHER ->
           [result |-> "crash", reported |-> NothingReported]

\* GenerateModule.run(): what it reports for an outcome of Client.generate.
GenerateModule_run(res) ==
    CASE res.kind = "return" ->
           [result |-> "exit", reported |-> [changed |-> TRUE, text |-> res.text]]
      [] res.kind \in {"CLINotFound", "CLINotPermitted", "GenerateError"} ->
           [result |-> "fail", reported |-> [changed |-> FALSE, text |-> res.text]]
      [] res.kind = "ReadError" ->
           [result |-> "fail", reported |-> [changed |-> TRUE, text |-> res.text]]
      [] OTHER ->
           [result |-> "crash", reported |-> NothingReported]

\* A caller of Client.read outside the modules: it sees the outcome itself.
Caller_run(res) ==
    [result |-> IF res.kind = "return" THEN "returned" ELSE "raised",
     reported |-> NothingReported]

\* What the running program makes of the outcome of its client call.
Module_run(res) ==
    CASE module = "secrethub_write"    -> WriteModule_run(res)
      [] module = "secrethub_generate" -> GenerateModule_run(res)
      [] OTHER                         -> Caller_run(res)

\* ----------------------------------------------------- the secret programs

SecretPrograms == {"secrethub_write", "secrethub_generate", "client_read"}

\* self.client(): the client is built from the options.
new_client ==
    /\ module \in SecretPrograms \cup {"base_client"} /\ pc = "client"
    /\ config' = client
    /\ pc' = CASE module = "secrethub_write"    -> "write"
               [] module = "secrethub_generate" -> "generate"
               [] module = "client_read"        -> "read"
               [] OTHER                         -> "done"
    /\ result' = IF module = "base_client" THEN "returned" ELSE result
    /\ UNCHANGED <<module, msg, dir, cliRest, params, env, value, symbols,
                   length, cmds, clientRes, reported>>

\* The program ends with the outcome res of its client call.
Finish(res) ==
    /\ clientRes' = [res EXCEPT !.started = <<>>]
    /\ cmds' = cmds \o res.started
    /\ result' = Module_run(res).result
    /\ reported' = Module_run(res).reported
    /\ pc' = "done"

\* WriteModule.run(): self.client().write(path, value)
write_secret ==
    /\ module = "secrethub_write" /\ pc = "write"
    /\ \E out \in Strings, err \in Strings :
         Finish(write(Path, value, out, err))
    /\ UNCHANGED <<module, msg, dir, cliRest, params, env, config, value,
                   symbols, length>>

\* GenerateModule.run(): self.client().generate(...), the 'generate rand'
\* command.
generate_secret ==
    /\ module = "secrethub_generate" /\ pc = "generate"
    /\ \E out \in Strings, err \in Strings :
         LET res == generate(Path, length, symbols, out, err) IN
           IF res.kind = "read"
           THEN /\ cmds' = cmds \o res.started
                /\ pc' = "read"
                /\ UNCHANGED <<result, clientRes, reported>>
           ELSE Finish(res)
    /\ UNCHANGED <<module, msg, dir, cliRest, params, env, config, value,
                   symbols, length>>

\* Client.read(path): the last line of generate, or a call of its own.
read_secret ==
    /\ module \in {"secrethub_generate", "client_read"} /\ pc = "read"
    /\ \E out \in Strings, err \in Strings :
         Finish(read(Path, out, err))
    /\ UNCHANGED <<module, msg, dir, cliRest, params, env, config, value,
                   symbols, length>>

\* Another process takes the execute permission from the binary between the
\* two commands of generate.
external_chmod ==
    /\ module = "secrethub_generate" /\ pc = "read"
    /\ bin_path.mode = "exec"
    /\ dir' = [dir EXCEPT ![bin_name].mode = "noperm"]
    /\ UNCHANGED <<module, pc, result, msg, cliRest, clientVars>>

\* ------------------------------------------------------------ the program

\* The install directory before the first run: the binary is absent, or any
\* file; the archive's other member is there when an earlier install of the
\* release that the binary names put it there.
InitDirs ==
    {[f \in {"secrethub", "LICENSE"} |-> IF f = bin_name THEN b ELSE NoFile] :
        b \in BinaryFiles \cup {NoFile}}

\* The variables of the secret modules while secrethub_cli runs.
NoClient ==
    /\ params = [n \in OptionNames |-> None]
    /\ env = [k \in EnvNames |-> None]
    /\ config = [n \in OptionNames |-> None]
    /\ value = Empty /\ symbols = FALSE /\ length = DefaultLength
    /\ cmds = <<>> /\ clientRes = NoOutcome /\ reported = NothingReported

\* The variables of run() while a secret module runs.
NoCLI ==
    /\ dirWritable = TRUE /\ state = "present" /\ version = Latest
    /\ manifest = Empty /\ returns = InitReturns
    /\ current = None /\ target = Empty
    /\ tmp = "none" /\ extracted = 0 /\ dir0 = dir
    /\ phase = Idle /\ calls = NoCalls /\ runNo = 1

InitCLI ==
    /\ module = "secrethub_cli"
    /\ pc = "run" /\ result = "running" /\ msg = ""
    /\ dir \in InitDirs
    /\ dirWritable \in BOOLEAN
    /\ state \in {"present", "absent"}
    /\ version \in Strings \cup {Latest}
    /\ manifest \in Strings
    /\ returns = InitReturns
    /\ current = None /\ target = Empty
    /\ tmp = "none" /\ extracted = 0 /\ dir0 = dir
    /\ phase = Idle /\ calls = NoCalls
    /\ runNo = 1
    /\ NoClient

\* The options as a task of the secret modules gives them: config_dir set
\* or not, the others left out, nothing in the environment.
TaskParams ==
    {[n \in OptionNames |-> IF n = "config_dir" THEN c ELSE None] :
        c \in {None, PlaybookValue}}

\* A task of secrethub_write or secrethub_generate, or a caller of
\* Client.read.  The binary is absent, or a file of any mode.
InitSecret ==
    /\ module \in SecretPrograms
    /\ pc = "client" /\ result = "running" /\ msg = ""
    /\ dir \in {d \in InitDirs : d[bin_name].out = Empty}
    /\ NoCLI
    /\ params \in TaskParams
    /\ env = [k \in EnvNames |-> None]
    /\ config = [n \in OptionNames |-> None]
    /\ value \in (IF module = "secrethub_write" THEN Strings ELSE {Empty})
    /\ symbols \in (IF module = "secrethub_generate" THEN BOOLEAN ELSE {FALSE})
    /\ length \in (IF module = "secrethub_generate" THEN {0, DefaultLength}
                                                     ELSE {DefaultLength})
    /\ cmds = <<>> /\ clientRes = NoOutcome /\ reported = NothingReported

\* BaseModule.client() on every combination of the options: each option
\* left out, empty or set in the playbook, each variable set or not.
InitOptions ==
    /\ module = "base_client"
    /\ pc = "client" /\ result = "running" /\ msg = ""
    /\ dir = [f \in {"secrethub", "LICENSE"} |-> NoFile]
    /\ NoCLI
    /\ params \in [OptionNames -> {None, Some(Empty), PlaybookValue}]
    /\ env \in {[k \in EnvNames |-> IF k \in S THEN EnvValue(k) ELSE None] :
                  S \in SUBSET EnvNames}
    /\ config = [n \in OptionNames |-> None]
    /\ value = Empty /\ symbols = FALSE /\ length = DefaultLength
    /\ cmds = <<>> /\ clientRes = NoOutcome /\ reported = NothingReported

Init == InitCLI \/ InitSecret \/ InitOptions

Next ==
    \/ run
    \/ target_version
    \/ latest_version
    \/ fetch_binary
    \/ extractall
    \/ install
    \/ uninstall
    \/ exit
    \/ main
    \/ external_remove
    \/ new_client
    \/ write_secret
    \/ generate_secret
    \/ read_secret
    \/ external_chmod

Spec == Init /\ [][Next]_vars

\* ------------------------------------------------------------- properties

IsCLI == module = "secrethub_cli"

\* run() has read the current version (lines 113-119 are behind it).
CurrentKnown == IsCLI /\ returns.paths

\* run() has resolved the target version (line 121 is behind it).
TargetKnown ==
    /\ IsCLI /\ calls.target_version = 1
    /\ ~(result = "fail" /\ msg = "failed to fetch latest version")

\* C1: with state=present, when the current version equals the target
\* version, install is never invoked (no fetch, no extraction, no chmod, the
\* install directory and the temporary directory untouched) and the module
\* exits reporting changed == false.
C1_NoInstallWhenUpToDate ==
    (state = "present" /\ TargetKnown /\ current = Some(target)) =>
        /\ calls.install = 0 /\ calls.fetch = 0
        /\ calls.extract = 0 /\ calls.chmod = 0
        /\ phase.install = "idle" /\ tmp = "none" /\ dir = dir0
        /\ returns.changed = FALSE
        /\ pc \in {"exit", "done"}
        /\ (pc = "done" => result = "exit")

C1_Witness ==
    /\ state = "present" /\ TargetKnown /\ current = Some(target)
    /\ runNo = 1 /\ result = "exit" /\ returns.version = Some(target)

\* C2 as stated: with state=present, whenever the current version differs
\* from the target version, install is invoked exactly once and afterwards
\* current_version() equals the target, which is reported with
\* changed == true.
C2_Original ==
    (state = "present" /\ TargetKnown /\ current # Some(target) /\ pc = "done") =>
        /\ calls.install = 1
        /\ current_version(bin_path) = [kind |-> "return", val |-> Some(target)]
        /\ returns.version = Some(target)
        /\ returns.changed = TRUE

\* C2 amended: with state=present, whenever the current version differs
\* from the target version, install(target) is invoked exactly once; the
\* module exits (rather than fails) only when install returned, and when
\* install returned current_version() equals the target, which is the
\* version reported together with changed == true; install returns whenever
\* the download and the extraction of every member went through.
C2_InstallOnceThenTarget ==
    (state = "present" /\ TargetKnown /\ current # Some(target)) =>
        /\ calls.install <= 1
        /\ (pc \in {"extract", "exit", "done"} => calls.install = 1)
        /\ (result = "exit" => phase.install = "returned")
        /\ (pc = "exit" => phase.install = "returned")
        /\ (phase.install = "returned" =>
              /\ current_version(bin_path) = [kind |-> "return", val |-> Some(target)]
              /\ returns.version = Some(target)
              /\ returns.changed = TRUE
              /\ calls.chmod = 1
              /\ result \in {"running", "exit"})
        /\ (extracted = Len(Members) => phase.install \in {"running", "returned"})

\* An upgrade or downgrade that went through.
C2_Witness ==
    /\ state = "present" /\ TargetKnown /\ current # Some(target)
    /\ current # None
    /\ result = "exit" /\ phase.install = "returned"

\* C3 as stated: with state=absent, no uninstall when nothing is installed;
\* otherwise uninstall is invoked exactly once and afterwards
\* current_version() is None; the target version is never resolved.
C3_Original ==
    (state = "absent" /\ CurrentKnown /\ pc = "done") =>
        /\ calls.target_version = 0 /\ calls.install = 0
        /\ (current = None => calls.uninstall = 0 /\ returns.changed = FALSE)
        /\ (current # None =>
              /\ calls.uninstall = 1
              /\ current_version(bin_path) = [kind |-> "return", val |-> None])

\* C3 amended: with state=absent the target version is never resolved and
\* nothing is installed; when nothing is installed uninstall is not invoked
\* and the module exits with changed == false; otherwise uninstall is
\* invoked exactly once, the module exits only when uninstall returned, and
\* when uninstall returned current_version() is None, reported with
\* changed == true.
C3_UninstallOnceThenNone ==
    (state = "absent" /\ CurrentKnown) =>
        /\ calls.target_version = 0 /\ calls.install = 0 /\ calls.fetch = 0
        /\ (current = None =>
              /\ calls.uninstall = 0
              /\ returns.changed = FALSE
              /\ pc \in {"exit", "done"}
              /\ (pc = "done" => result = "exit"))
        /\ (current # None =>
              /\ calls.uninstall <= 1
              /\ (pc \in {"exit", "done"} => calls.uninstall = 1)
              /\ (result = "exit" => phase.uninstall = "returned")
              /\ (phase.uninstall = "returned" =>
                    /\ current_version(bin_path) = [kind |-> "return", val |-> None]
                    /\ returns.version = None
                    /\ returns.changed = TRUE))

C3_Witness ==
    /\ state = "absent" /\ CurrentKnown /\ current # None
    /\ version # Latest
    /\ result = "exit" /\ phase.uninstall = "returned"

\* C4: a run that immediately follows a successful run with the same
\* parameters performs no install and no uninstall and reports
\* changed == false, for either desired state and for a pinned version as
\* for 'latest'.
C4_SecondRunDoesNothing ==
    (IsCLI /\ runNo >= 2) =>
        /\ calls.install = 0 /\ calls.uninstall = 0
        /\ calls.fetch = 0 /\ calls.chmod = 0
        /\ returns.changed = FALSE
        /\ dir = dir0
        /\ result # "crash"
        /\ (result = "fail" => msg = "failed to fetch latest version")

\* The second run after a first run that installed the latest release.
C4_Witness ==
    /\ IsCLI /\ runNo = 2 /\ result = "exit"
    /\ state = "present" /\ version = Latest
    /\ dir["LICENSE"] # NoFile
    /\ returns.version = Some(manifest)

\* C5: once install has ended, in whatever way, the temporary download
\* directory it created is gone.
C5_TmpDirRemoved ==
    (IsCLI /\ phase.install \in {"returned", "failed"}) => tmp # "exists"

\* C6: when install fails, the install directory holds what it held when
\* install was called.
C6_AllOrNothing ==
    (IsCLI /\ phase.install = "failed") => dir = dir0

IsSecret == module \in SecretPrograms

\* The client call of the running program has ended.
CallEnded == IsSecret /\ pc = "done"

\* C7 as stated: when starting the binary fails with ENOENT, read, write,
\* generate and current_version each surface CLINotFound: run() does not go
\* on as if nothing were installed.
C7_Original ==
    /\ (CallEnded /\ Popen(bin_path) = "ENOENT") => clientRes.kind = "CLINotFound"
    /\ (IsCLI /\ runNo = 1 /\ pc # "run" /\ Popen(dir0[bin_name]) = "ENOENT") =>
            result \in {"fail", "crash"} /\ calls.target_version = 0

\* C7 amended: when starting the binary fails with ENOENT, Client.read,
\* Client.write and Client.generate raise CLINotFound, never another error
\* and never a value, and CLINotFound is raised for nothing else;
\* CLIModule.current_version returns None instead, and run() goes on with
\* "not installed".
C7_NotFoundSurfaces ==
    /\ (CallEnded /\ Popen(bin_path) = "ENOENT") =>
            /\ clientRes.kind = "CLINotFound"
            /\ clientRes.text = <<"cannot find the SecretHub CLI at: ">> \o cli_path
    /\ (CallEnded /\ clientRes.kind = "CLINotFound") => Popen(bin_path) = "ENOENT"
    /\ (module \in {"secrethub_write", "secrethub_generate"} /\ pc = "done"
          /\ clientRes.kind = "CLINotFound") =>
            result = "fail" /\ reported.changed = FALSE
    /\ (IsCLI /\ runNo = 1 /\ pc # "run" /\ Popen(dir0[bin_name]) = "ENOENT") =>
            /\ CurrentKnown /\ current = None
            /\ msg # "cannot execute"
            /\ calls.uninstall = 0
            /\ (state = "present" => pc = "target_version" \/ calls.target_version = 1)
            /\ (state = "absent" => pc \in {"exit", "done"} /\ returns.version = None)

\* The binary disappears between the two commands of generate.
C7_Witness ==
    /\ module = "secrethub_generate" /\ pc = "done"
    /\ Len(cmds) = 1 /\ Popen(bin_path) = "ENOENT"
    /\ clientRes.kind = "CLINotFound"

\* What the documentation says an option resolves to: the playbook value
\* when it is set, else the variable SECRETHUB_<OPTION>, else None.
DocumentedOption(name) ==
    IF Truthy(params[name]) THEN params[name]
    ELSE IF Truthy(env[EnvName(name)]) THEN env[EnvName(name)]
    ELSE None

\* C8: get_option gives the playbook value when set, else the value of the
\* variable SECRETHUB_<OPTION NAME>, else None, and the client that
\* BaseModule.client() builds holds exactly these.
C8_OptionFromMatchingVariable ==
    (module = "base_client" /\ pc = "done") =>
        \A n \in OptionNames :
            /\ get_option(n) = DocumentedOption(n)
            /\ config[n] = DocumentedOption(n)

\* C9 as stated: for write and for generate the outcome follows from the
\* standard error of the command alone: empty gives a return, non-empty
\* gives WriteError / GenerateError with that text.
C9_Original ==
    (module \in {"secrethub_write", "secrethub_generate"}
       /\ pc = "done" /\ Len(cmds) >= 1) =>
        /\ (cmds[1].err = Empty => clientRes.kind = "return")
        /\ (cmds[1].err # Empty =>
              /\ clientRes.kind = (IF module = "secrethub_write"
                                   THEN "WriteError" ELSE "GenerateError")
              /\ clientRes.text = cmds[1].err)

\* C9 amended: whatever the standard output is, write returns its value
\* when the standard error of 'write' is empty and raises WriteError with
\* that text when it is not; generate raises GenerateError with the text
\* when the standard error of 'generate rand' is not empty, and when it is
\* empty goes on to the read, whose own standard error (or failure to
\* start) then decides between a return and a failure.
C9_StderrDecides ==
    /\ (module = "secrethub_write" /\ pc = "done" /\ Len(cmds) >= 1) =>
          /\ Len(cmds) = 1
          /\ (cmds[1].err = Empty =>
                clientRes.kind = "return" /\ clientRes.text = value)
          /\ (cmds[1].err # Empty =>
                clientRes.kind = "WriteError" /\ clientRes.text = cmds[1].err)
    /\ (module = "secrethub_generate" /\ Len(cmds) >= 1) =>
          /\ (cmds[1].err # Empty =>
                /\ pc = "done" /\ Len(cmds) = 1
                /\ clientRes.kind = "GenerateError"
                /\ clientRes.text = cmds[1].err)
          /\ (cmds[1].err = Empty =>
                /\ pc \in {"read", "done"}
                /\ clientRes.kind # "GenerateError"
                /\ (pc = "done" =>
                      clientRes.kind = "return"
                          <=> (Len(cmds) = 2 /\ cmds[2].err = Empty)))

\* write succeeds although the command wrote to its standard output.
C9_Witness ==
    /\ module = "secrethub_write" /\ pc = "done" /\ Len(cmds) = 1
    /\ cmds[1].out # Empty /\ cmds[1].err = Empty
    /\ value # Empty /\ clientRes.kind = "return"

\* C10: generate issues 'read <path>' only after 'generate rand' ended with
\* an empty standard error, and never after a failed generation; a failed
\* generation is a GenerateError, a failed follow-up read is a ReadError,
\* and the value returned is what that read returns.
C10_GenerateThenRead ==
    (module = "secrethub_generate") =>
        /\ Len(cmds) <= 2
        /\ (Len(cmds) >= 1 =>
              /\ cmds[1].op = <<"generate">>
              /\ cmds[1].argv[Len(cmds[1].argv) - (IF length > 0 THEN 1 ELSE 0)] = Path)
        /\ (pc = "read" => Len(cmds) = 1 /\ cmds[1].err = Empty)
        /\ (Len(cmds) = 2 =>
              /\ cmds[1].err = Empty
              /\ cmds[2].op = <<"read">>
              /\ cmds[2].argv[Len(cmds[2].argv)] = Path
              /\ ~cmds[2].pipe)
        /\ (clientRes.kind = "GenerateError" =>
              /\ Len(cmds) = 1 /\ cmds[1].err # Empty
              /\ clientRes.text = cmds[1].err)
        /\ (clientRes.kind = "ReadError" =>
              /\ Len(cmds) = 2 /\ cmds[2].err # Empty
              /\ clientRes.text = cmds[2].err)
        /\ (clientRes.kind = "return" =>
              /\ Len(cmds) = 2 /\ cmds[2].err = Empty
              /\ clientRes.text = (IF EndsWithNL(cmds[2].out)
                                   THEN DropLast(cmds[2].out) ELSE cmds[2].out)
              /\ reported.text = clientRes.text)

\* The follow-up read fails after a generation that went through.
C10_Witness ==
    /\ module = "secrethub_generate" /\ pc = "done" /\ Len(cmds) = 2
    /\ cmds[1].out # Empty
    /\ clientRes.kind = "ReadError"

\* C11: every fatal failure of the CLI module (binary found but not
\* executable, latest version not fetched, permission denied in download,
\* extraction or deletion) ends the run and reports the message together
\* with bin_path and install_dir.
C11_FailureReportsPaths ==
    (IsCLI /\ result = "fail") =>
        /\ pc = "done"
        /\ msg \in {"cannot execute", "failed to fetch latest version", "EACCES"}
        /\ returns.paths

\* C12: for every value, the empty one included, write runs 'write <path>'
\* with a pipe on standard input that is given the whole value, and on
\* empty standard error returns the value it was given.
C12_WritePipesValue ==
    (module = "secrethub_write" /\ Len(cmds) >= 1) =>
        /\ cmds[1].op = <<"write">>
        /\ cmds[1].argv[Len(cmds[1].argv)] = Path
        /\ cmds[1].pipe
        /\ cmds[1].input = value
        /\ (cmds[1].err = Empty =>
              clientRes.kind = "return" /\ clientRes.text = value)

\* C13: uninstall does not end with an uncaught exception when the binary
\* is already gone at the moment of os.remove; permission denied on the
\* removal fails the module with its message.
C13_UninstallSurvivesAbsentBinary ==
    (IsCLI /\ phase.uninstall = "failed") =>
        /\ result = "fail" /\ msg = "EACCES"
        /\ Remove(bin_path) = "EACCES"

\* A text with one trailing newline taken off, and nothing else.
TrimOneNL(s) == IF EndsWithNL(s) THEN DropLast(s) ELSE s

\* C14: for every text the binary writes to standard error for --version,
\* current_version returns it with exactly one trailing newline trimmed and
\* nothing else removed; it returns None only when the binary is absent,
\* and fails the module when the binary is there but cannot be executed.
C14_VersionTrimsOneNewline ==
    (IsCLI /\ runNo = 1 /\ pc # "run") =>
        LET file == dir0[bin_name] IN
          /\ (Popen(file) = "OK" =>
                CurrentKnown /\ current = Some(TrimOneNL(file.out)))
          /\ (Popen(file) = "ENOENT" => CurrentKnown /\ current = None)
          /\ (CurrentKnown /\ current = None => Popen(file) = "ENOENT")
          /\ (Popen(file) = "EACCES" =>
                result = "fail" /\ msg = "cannot execute" /\ ~CurrentKnown)

\* C15: whenever 'generate rand' ended with an empty standard error, what
\* secrethub_generate reports, success or failure of the follow-up read for
\* whatever reason, carries changed == true.
C15_ChangedOnceGenerated ==
    (module = "secrethub_generate" /\ pc = "done"
       /\ Len(cmds) >= 1 /\ cmds[1].err = Empty
       /\ result \in {"exit", "fail"}) =>
        reported.changed = TRUE

====
